---- MODULE Spec2Model ----
(***************************************************************************)
(* A model of the quadtree spatial index (utils/Quadtree: Rectangle and    *)
(* Quadtree), of the QuadtreeRenderer component that builds and queries    *)
(* it, and of the viewport state that GenericQuadtreeVisualization and     *)
(* ZoomPanContainer feed into the renderer.                                *)
(*                                                                         *)
(* Numbers.  Every coordinate of the program is a JavaScript Number, an    *)
(* IEEE-754 binary floating-point value with a 53-bit significand and      *)
(* round-to-nearest, ties-to-even arithmetic.  The model keeps the         *)
(* arithmetic and scales the format down: a value is an integer count of   *)
(* the smallest representable step, the significand has MantBits bits,     *)
(* and every sum, difference, quotient and product is rounded to the       *)
(* nearest representable value, ties to even, exactly where the program    *)
(* computes it.                                                            *)
(***************************************************************************)
EXTENDS Integers, Sequences, FiniteSets, TLC

(* ------------------------------ bounds -------------------------------- *)

\* significand width of the scaled-down number format (53 in the program)
MantBits == 3
\* the world is 3 * 2^WorldExp wide and high
WorldExp == 4
\* longest item list whose items may differ from one another
MaxItems == 5
\* longest item list whose items all have the same bounds
MaxCluster == 17
\* longest item list that holds items without proper bounds
MaxMisuseItems == 4
\* longest item list of items that crowd the far edge of the world
MaxDenseItems == 20
\* longest item list while the performance monitor is watched
MaxMonitorItems == 2

(* ------------------------- program constants -------------------------- *)

CAPACITY == 4
\* bufferScale = 0.2, held as the fraction BufferScaleNum / BufferScaleDen
BufferScaleNum == 1
BufferScaleDen == 5
DefaultBufferScale == [num |-> BufferScaleNum, den |-> BufferScaleDen]

(* --------------------------- number format ---------------------------- *)

RECURSIVE ExponentOf(_, _, _)
\* the least e >= 0 with n/d < 2^(MantBits + e): the binade of n/d
ExponentOf(n, d, e) ==
    IF n < d * 2^(MantBits + e) THEN e ELSE ExponentOf(n, d, e + 1)

\* the significand f of n/s with remainder r, rounded to an integer, ties to even
RoundSignificand(f, r, s) ==
    IF (2 * r > s) \/ (2 * r = s /\ f % 2 = 1) THEN f + 1 ELSE f

\* n/d >= 0 rounded to a multiple of 2^e
RoundAt(n, d, e) ==
    RoundSignificand(n \div (d * 2^e), n % (d * 2^e), d * 2^e) * 2^e

\* n/d >= 0 rounded to a MantBits-bit significand, ties to even
RoundMagnitude(n, d) == RoundAt(n, d, ExponentOf(n, d, 0))

\* the representable value nearest to n/d, for d > 0
RoundNearest(n, d) ==
    (IF n >= 0 THEN 1 ELSE -1)
        * RoundMagnitude(IF n >= 0 THEN n ELSE 0 - n, d)

\* NaN, which is no number: it stands here as an integer that no computation
\* on numbers reaches.  An operation on NaN gives NaN and a comparison with
\* NaN is false.
NaN == 0 - 2^30
IsNaN(a) == a = NaN

\* a + b, a - b, a / 2, a * 2, a / b and a * (num/den) as the program computes them
FAdd(a, b) == IF IsNaN(a) \/ IsNaN(b) THEN NaN ELSE RoundNearest(a + b, 1)
FSub(a, b) == IF IsNaN(a) \/ IsNaN(b) THEN NaN ELSE RoundNearest(a - b, 1)
FHalf(a) == IF IsNaN(a) THEN NaN ELSE RoundNearest(a, 2)
FDouble(a) == IF IsNaN(a) THEN NaN ELSE RoundNearest(2 * a, 1)
FDiv(a, b) ==
    IF IsNaN(a) \/ IsNaN(b) THEN NaN
    ELSE IF b > 0 THEN RoundNearest(a, b) ELSE RoundNearest(0 - a, 0 - b)
FScale(a, frac) == IF IsNaN(a) THEN NaN ELSE RoundNearest(a * frac.num, frac.den)

\* a >= b, a <= b, a > b and a < b as the program evaluates them
GreaterEq(a, b) == ~IsNaN(a) /\ ~IsNaN(b) /\ a >= b
LessEq(a, b) == ~IsNaN(a) /\ ~IsNaN(b) /\ a <= b
Greater(a, b) == ~IsNaN(a) /\ ~IsNaN(b) /\ a > b
Less(a, b) == ~IsNaN(a) /\ ~IsNaN(b) /\ a < b

(* ------------------------------ Rectangle ----------------------------- *)

Rectangle(x, y, width, height) ==
    [x |-> x, y |-> y, width |-> width, height |-> height,
     w |-> width, h |-> height]

\* Rectangle.contains: inclusive on all four sides
Contains(this, point) ==
    /\ GreaterEq(point.cx, this.x)
    /\ LessEq(point.cx, FAdd(this.x, this.width))
    /\ GreaterEq(point.cy, this.y)
    /\ LessEq(point.cy, FAdd(this.y, this.height))

\* intersects with >= and <= in place of > and <: touching edges do not intersect
IntersectsStrict(this, range) ==
    ~ \/ GreaterEq(range.x, FAdd(this.x, this.width))
      \/ LessEq(FAdd(range.x, range.width), this.x)
      \/ GreaterEq(range.y, FAdd(this.y, this.height))
      \/ LessEq(FAdd(range.y, range.height), this.y)

\* intersects that takes the far edges of this rectangle as outside it, and
\* those of the other rectangle as inside
IntersectsHalfOpen(this, range) ==
    ~ \/ GreaterEq(range.x, FAdd(this.x, this.width))
      \/ Less(FAdd(range.x, range.width), this.x)
      \/ GreaterEq(range.y, FAdd(this.y, this.height))
      \/ Less(FAdd(range.y, range.height), this.y)

\* Rectangle.intersects: touching edges intersect
Intersects(this, range) ==
    ~ \/ Greater(range.x, FAdd(this.x, this.width))
      \/ Less(FAdd(range.x, range.width), this.x)
      \/ Greater(range.y, FAdd(this.y, this.height))
      \/ Less(FAdd(range.y, range.height), this.y)

(* ------------------------------ Quadtree ------------------------------ *)

\* A tree is a function from node paths to nodes.  The root is the empty
\* path; a child's path is its parent's path followed by its quadrant name.
Quadrants == {"northeast", "northwest", "southeast", "southwest"}
RootPath == << >>
Child(path, q) == Append(path, q)

\* the values an insert or a query can return
RetTrue == "true"
RetFalse == "false"
RetUndefined == "undefined"
RetArray == "array"
\* what a child's insert returns is not looked at
TruthyNever(ret) == FALSE
\* the test of if (child.insert(dot))
Truthy(ret) == ret = RetTrue

\* new Quadtree(boundary)
NewNode(boundary) == [boundary |-> boundary, dots |-> << >>, divided |-> FALSE]
NewQuadtree(boundary) == (RootPath :> NewNode(boundary))

HasChildren(tree, path) == Child(path, "northwest") \in DOMAIN tree

\* Quadtree.subdivide on the node at path
Subdivide(tree, path) ==
    LET b == tree[path].boundary
        x == b.x
        y == b.y
        w == FHalf(b.w)
        h == FHalf(b.h)
        ne == Rectangle(FAdd(x, w), y, w, h)
        nw == Rectangle(x, y, w, h)
        se == Rectangle(FAdd(x, w), FAdd(y, h), w, h)
        sw == Rectangle(x, FAdd(y, h), w, h)
        kids == (Child(path, "northeast") :> NewNode(ne))
             @@ (Child(path, "northwest") :> NewNode(nw))
             @@ (Child(path, "southeast") :> NewNode(se))
             @@ (Child(path, "southwest") :> NewNode(sw))
    IN  kids @@ [tree EXCEPT ![path].divided = TRUE]

RECURSIVE Insert(_, _, _)
RECURSIVE InsertIntoChildren(_, _, _, _, _)

\* the order in which insert offers a dot to the children
InsertOrder == << "northeast", "northwest", "southeast", "southwest" >>

\* a subdivision that takes the node's own items away from it
SubdivideClearing(tree, path) ==
    IF ~tree[path].divided
    THEN [Subdivide(tree, path) EXCEPT ![path].dots = << >>]
    ELSE tree

\* a subdivision that runs at every insert into a full node, also when the
\* node has children already
SubdivideAgain(tree, path) == Subdivide(tree, path)

\* if (!this.divided) { this.subdivide(); }
SubdivideOnce(tree, path) ==
    IF ~tree[path].divided THEN Subdivide(tree, path) ELSE tree

\* The result of an insert call holds the tree after the call, the value the
\* call returns, and the values returned by this call and by every call it
\* makes.

\* the child calls of insert from the k-th on, calls holding what the calls
\* made before them returned: true at the first child that accepts, and
\* after the last the function ends without a return statement
InsertIntoChildren(tree, path, dot, k, calls) ==
    IF k > Len(InsertOrder)
    THEN [tree |-> tree, ret |-> RetUndefined,
          calls |-> calls \cup {RetUndefined}]
    ELSE LET r == Insert(tree, Child(path, InsertOrder[k]), dot)
         IN  IF Truthy(r.ret)
             THEN [r EXCEPT !.ret = RetTrue,
                            !.calls = calls \cup @ \cup {RetTrue}]
             ELSE InsertIntoChildren(r.tree, path, dot, k + 1,
                                     calls \cup r.calls)

\* insert with the capacity test before the containment test: a node with
\* room takes any dot
InsertPushFirst(tree, path, dot) ==
    IF Len(tree[path].dots) < CAPACITY
    THEN [tree |-> [tree EXCEPT ![path].dots = Append(@, dot)],
          ret |-> RetTrue, calls |-> {RetTrue}]
    ELSE IF ~Contains(tree[path].boundary, dot)
    THEN [tree |-> tree, ret |-> RetFalse, calls |-> {RetFalse}]
    ELSE InsertIntoChildren(SubdivideOnce(tree, path), path, dot, 1, {})

\* insert without the capacity test: a node takes every dot it contains
InsertNoCapacity(tree, path, dot) ==
    IF ~Contains(tree[path].boundary, dot)
    THEN [tree |-> tree, ret |-> RetFalse, calls |-> {RetFalse}]
    ELSE [tree |-> [tree EXCEPT ![path].dots = Append(@, dot)],
          ret |-> RetTrue, calls |-> {RetTrue}]

\* Quadtree.insert(dot) on the node at path
Insert(tree, path, dot) ==
    IF ~Contains(tree[path].boundary, dot)
    THEN [tree |-> tree, ret |-> RetFalse, calls |-> {RetFalse}]
    ELSE IF Len(tree[path].dots) < CAPACITY
    THEN [tree |-> [tree EXCEPT ![path].dots = Append(@, dot)],
          ret |-> RetTrue, calls |-> {RetTrue}]
    ELSE InsertIntoChildren(SubdivideOnce(tree, path), path, dot, 1, {})

RECURSIVE SelectContained(_, _)
\* the for-loop of query: the dots of a node that range contains, in order
SelectContained(dots, range) ==
    IF dots = << >> THEN << >>
    ELSE (IF Contains(range, Head(dots)) THEN << Head(dots) >> ELSE << >>)
         \o SelectContained(Tail(dots), range)

RECURSIVE QueryNode(_, _, _, _)
RECURSIVE QueryChildren(_, _, _, _, _)

\* the order in which query visits the children
QueryOrder == << "northwest", "northeast", "southwest", "southeast" >>

\* the child calls of query from the k-th on: each is handed the array and
\* what it returns is not looked at
QueryChildren(tree, path, range, found, k) ==
    IF k > Len(QueryOrder) THEN found
    ELSE QueryChildren(tree, path, range,
             QueryNode(tree, Child(path, QueryOrder[k]), range, found).found,
             k + 1)

\* query that looks at a node's own dots only when the node has no children
QueryLeavesOnly(tree, path, range, found) ==
    IF ~Intersects(tree[path].boundary, range)
    THEN [ret |-> RetUndefined, found |-> found]
    ELSE IF tree[path].divided
    THEN [ret |-> RetArray,
          found |-> QueryChildren(tree, path, range, found, 1)]
    ELSE [ret |-> RetArray,
          found |-> found \o SelectContained(tree[path].dots, range)]

\* query that visits the children before it looks at the node's own dots
QueryChildrenFirst(tree, path, range, found) ==
    IF ~Intersects(tree[path].boundary, range)
    THEN [ret |-> RetUndefined, found |-> found]
    ELSE IF tree[path].divided
    THEN [ret |-> RetArray,
          found |-> QueryChildren(tree, path, range, found, 1)
                        \o SelectContained(tree[path].dots, range)]
    ELSE [ret |-> RetArray,
          found |-> found \o SelectContained(tree[path].dots, range)]

\* Quadtree.query(range, found) on the node at path, found being an array.
\* The result holds what the call returns (undefined or the array) and the
\* contents of the array after the call.
QueryNode(tree, path, range, found) ==
    IF ~Intersects(tree[path].boundary, range)
    THEN [ret |-> RetUndefined, found |-> found]
    ELSE IF tree[path].divided
    THEN [ret |-> RetArray,
          found |-> QueryChildren(tree, path, range,
                        found \o SelectContained(tree[path].dots, range), 1)]
    ELSE [ret |-> RetArray,
          found |-> found \o SelectContained(tree[path].dots, range)]

\* quadtree.query(range): the caller passes no array, so one is created
Query(tree, range) == QueryNode(tree, RootPath, range, << >>)

(* ------------------------- QuadtreeRenderer --------------------------- *)

\* the viewport state before the first transform event
Null == [isNull |-> TRUE]

\* the caller's bounds function: an item carries its own rectangle
GetItemBounds(item) ==
    [x |-> item.x, y |-> item.y, width |-> item.width, height |-> item.height]

\* the wrapper the build loop inserts: the item's fields, the centre of its
\* bounds as cx and cy, and the item itself as originalItem
QuadtreeItem(item) ==
    LET bounds == GetItemBounds(item)
    IN  [id |-> item.id, x |-> item.x, y |-> item.y,
         width |-> item.width, height |-> item.height,
         cx |-> FAdd(bounds.x, FHalf(bounds.width)),
         cy |-> FAdd(bounds.y, FHalf(bounds.height)),
         originalItem |-> item]

RECURSIVE InsertAll(_, _, _)
\* the build loop from item i on: every item is wrapped and inserted at the
\* root, and what insert returns is not looked at
InsertAll(acc, its, i) ==
    IF i > Len(its) THEN acc
    ELSE LET r == Insert(acc.quadtree, RootPath, QuadtreeItem(its[i]))
         IN  InsertAll([quadtree |-> r.tree,
                        returns |-> Append(acc.returns, r.ret),
                        calls |-> acc.calls \cup r.calls], its, i + 1)

\* the quadtree memo: a new root over the world bounds, then the build loop.
\* returns holds what each root insert returned, calls what any insert call
\* of the build returned.
BuildQuadtree(its, worldBounds) ==
    InsertAll([quadtree |-> NewQuadtree(Rectangle(0, 0, worldBounds.width,
                                                  worldBounds.height)),
               returns |-> << >>, calls |-> {}], its, 1)

\* the buffered viewport with the buffer added to the origin, not subtracted
BufferedViewportBufferAdded(vp, bufferScale) ==
    Rectangle(FAdd(vp.x, FScale(vp.width, bufferScale)),
              FAdd(vp.y, FScale(vp.height, bufferScale)),
              FAdd(vp.width, FDouble(FScale(vp.width, bufferScale))),
              FAdd(vp.height, FDouble(FScale(vp.height, bufferScale))))

\* new Rectangle(viewport.x - bufferX, ..., viewport.height + bufferY * 2)
BufferedViewport(vp, bufferScale) ==
    LET bufferX == FScale(vp.width, bufferScale)
        bufferY == FScale(vp.height, bufferScale)
    IN  Rectangle(FSub(vp.x, bufferX), FSub(vp.y, bufferY),
                  FAdd(vp.width, FDouble(bufferX)),
                  FAdd(vp.height, FDouble(bufferY)))

\* The visibleItems memo yields visibleItems and visibleCount; threw says
\* that the computation ended in a TypeError instead, and queries holds the
\* rectangles it passed to Quadtree.query.

\* the bypass branch: every item, wrapped, in the order of the list
BypassItems(its) ==
    [threw |-> FALSE,
     visibleItems |-> [i \in 1..Len(its) |-> [originalItem |-> its[i]]],
     visibleCount |-> Len(its), queries |-> << >>]

\* the branch taken without a viewport
NoItems ==
    [threw |-> FALSE, visibleItems |-> << >>, visibleCount |-> 0,
     queries |-> << >>]

\* the return of the query branch: the length of what query returned is read
QueryResult(quadtreeItems, bufferedViewport) ==
    IF quadtreeItems.ret = RetUndefined
    THEN \* quadtreeItems.length of undefined
         [threw |-> TRUE, visibleItems |-> << >>, visibleCount |-> 0,
          queries |-> << bufferedViewport >>]
    ELSE [threw |-> FALSE, visibleItems |-> quadtreeItems.found,
          visibleCount |-> Len(quadtreeItems.found),
          queries |-> << bufferedViewport >>]

\* const quadtreeItems = quadtree.query(bufferedViewport)
QueryViewport(tree, bufferedViewport) ==
    QueryResult(Query(tree, bufferedViewport), bufferedViewport)

\* the query branch: the buffered viewport is passed to Quadtree.query
QueriedItems(tree, vp, bufferScale) ==
    QueryViewport(tree, BufferedViewport(vp, bufferScale))

\* the memo with the viewport test before the bypass test
VisibleItemsViewportFirst(its, tree, vp, bufferScale, bypass) ==
    IF vp = Null THEN NoItems
    ELSE IF bypass THEN BypassItems(its)
    ELSE QueriedItems(tree, vp, bufferScale)

\* the memo with the whole world standing in for an absent viewport
VisibleItemsWorldDefault(its, tree, vp, bufferScale, bypass) ==
    IF bypass THEN BypassItems(its)
    ELSE QueriedItems(tree,
           IF vp = Null
           THEN [isNull |-> FALSE, x |-> 0, y |-> 0,
                 width |-> tree[RootPath].boundary.width,
                 height |-> tree[RootPath].boundary.height, scale |-> 1]
           ELSE vp,
           bufferScale)

\* the visibleItems memo
VisibleItems(its, tree, vp, bufferScale, bypass) ==
    IF bypass THEN BypassItems(its)
    ELSE IF vp = Null THEN NoItems
    ELSE QueriedItems(tree, vp, bufferScale)

\* an item of this model is an object, and an object is truthy
IsObject(v) == DOMAIN v # {}
\* visibleItems.map((item, index) => renderItem(item.originalItem || item, index)):
\* the first arguments of the renderItem calls, in order
RenderItemCalls(visibleItems) ==
    [i \in 1..Len(visibleItems) |->
        IF IsObject(visibleItems[i].originalItem)
        THEN visibleItems[i].originalItem
        ELSE visibleItems[i]]

RECURSIVE CollectVisibleBounds(_, _, _, _)
RECURSIVE CollectChildren(_, _, _, _, _)

\* the order in which collectVisibleBounds visits the children
CollectOrder == << "northwest", "northeast", "southwest", "southeast" >>

\* the child calls of collectVisibleBounds from the k-th on
CollectChildren(tree, path, viewportRect, bounds, k) ==
    IF k > Len(CollectOrder) THEN bounds
    ELSE CollectChildren(tree, path, viewportRect,
             CollectVisibleBounds(tree, Child(path, CollectOrder[k]),
                                  viewportRect, bounds),
             k + 1)

\* the boundary of a node as collectVisibleBounds pushes it
BoundsEntry(b) == [x |-> b.x, y |-> b.y, width |-> b.width, height |-> b.height]

\* collectVisibleBounds(node) with the bounds array as it is on entry
CollectVisibleBounds(tree, path, viewportRect, bounds) ==
    IF path \in DOMAIN tree /\ Intersects(viewportRect, tree[path].boundary)
    THEN IF HasChildren(tree, path)
         THEN CollectChildren(tree, path, viewportRect,
                  Append(bounds, BoundsEntry(tree[path].boundary)), 1)
         ELSE Append(bounds, BoundsEntry(tree[path].boundary))
    ELSE bounds

\* getVisibleBounds()
GetVisibleBounds(tree, vp, bufferScale) ==
    IF vp = Null THEN << >>
    ELSE CollectVisibleBounds(tree, RootPath,
                              BufferedViewport(vp, bufferScale), << >>)

(* -------------------------- ZoomPanContainer -------------------------- *)

\* calculateViewport(transform) with the container dimensions at hand
CalculateViewport(dims, transform) ==
    [isNull |-> FALSE,
     x |-> FDiv(0 - transform.positionX, transform.scale),
     y |-> FDiv(0 - transform.positionY, transform.scale),
     width |-> FDiv(dims.width, transform.scale),
     height |-> FDiv(dims.height, transform.scale),
     scale |-> transform.scale]

(* ------------------------------- inputs ------------------------------- *)

\* a world size that is no power of two, as window.innerWidth * 2 is
WorldSize == 3 * 2^WorldExp
WorldBounds == [width |-> WorldSize, height |-> WorldSize]

\* the bounds a caller's item may have: a large item centred on the far
\* corner of the world, a point on the centre of the world, where the
\* dividing lines of the root cross, and an item whose centre lies outside
\* the world
ItemShapes ==
    { [x |-> WorldSize \div 2, y |-> WorldSize \div 2,
       width |-> WorldSize, height |-> WorldSize],
      [x |-> WorldSize \div 2, y |-> WorldSize \div 2, width |-> 0, height |-> 0],
      [x |-> WorldSize, y |-> 0, width |-> WorldSize, height |-> WorldSize \div 2] }

NewItem(id, shape) ==
    [id |-> id, x |-> shape.x, y |-> shape.y,
     width |-> shape.width, height |-> shape.height]

\* window.innerWidth x window.innerHeight
WindowSizes ==
    { [width |-> WorldSize, height |-> WorldSize],
      [width |-> WorldSize \div 2, height |-> WorldSize \div 2] }

\* the transform states of pan and zoom events: the initial one, one zoomed
\* in and panned down to the world's southwest quarter, one panned off the
\* world, and one zoomed in threefold towards the world's far corner
Transforms ==
    { [scale |-> 1, positionX |-> 0, positionY |-> 0],
      [scale |-> 2, positionX |-> 0, positionY |-> 0 - WorldSize],
      [scale |-> 1, positionX |-> 2 * WorldSize, positionY |-> 0],
      [scale |-> 3, positionX |-> 0 - 2 * WorldSize,
       positionY |-> 0 - 2 * WorldSize] }

(* ------------------------------- state -------------------------------- *)

VARIABLES
    items,            \* the items prop
    quadtree,         \* the tree of the quadtree memo
    insertReturns,    \* what each root insert of the build returned
    insertCalls,      \* what the insert calls of the build returned
    dimensions,       \* ZoomPanContainer's container dimensions
    viewport,         \* GenericQuadtreeVisualization's viewport state
    bypassQuadtree,   \* GenericQuadtreeVisualization's bypass state
    visible,          \* the visibleItems memo
    renderCalls,      \* the first arguments of the renderItem calls
    overlayBounds,    \* what getVisibleBounds() gave the boundary overlay
    buildTime,        \* the buildTime of the quadtree memo
    queryTime,        \* the queryTime of the visibleItems memo
    reports,          \* what onPerformanceUpdate was called with after the
                      \* last commit
    stats             \* usePerformanceMonitor's queryTime and visibleItems

vars == << items, quadtree, insertReturns, insertCalls, dimensions, viewport,
           bypassQuadtree, visible, renderCalls, overlayBounds, buildTime,
           queryTime, reports, stats >>

\* one render of QuadtreeRenderer with these props.  A render that throws
\* renders nothing.
Rendered(its, tree, vp, bypass) ==
    /\ visible' = VisibleItems(its, tree, vp, DefaultBufferScale, bypass)
    /\ renderCalls' = IF visible'.threw THEN << >>
                      ELSE RenderItemCalls(visible'.visibleItems)
    /\ overlayBounds' = IF visible'.threw THEN << >>
                        ELSE GetVisibleBounds(tree, vp, DefaultBufferScale)

Init ==
    /\ items = << >>
    /\ quadtree = BuildQuadtree(items, WorldBounds).quadtree
    /\ insertReturns = << >>
    /\ insertCalls = {}
    /\ dimensions \in WindowSizes
    /\ viewport = Null
    /\ bypassQuadtree = FALSE
    /\ visible = VisibleItems(items, quadtree, viewport, DefaultBufferScale,
                              bypassQuadtree)
    /\ renderCalls = << >>
    /\ overlayBounds = << >>
    /\ buildTime = 0
    /\ queryTime = 0
    /\ reports = << >>
    /\ stats = [queryTime |-> 0, visibleItems |-> 0]

\* the quadtree memo keeps the tree it has, whatever was built
BuiltKeepsTree(build) ==
    /\ quadtree' = quadtree
    /\ insertReturns' = build.returns
    /\ insertCalls' = build.calls

\* the quadtree memo inserts the items into the tree it has, not into an
\* empty root
BuiltOnOldTree(build) ==
    /\ quadtree' = InsertAll([quadtree |-> quadtree, returns |-> << >>,
                              calls |-> {}], items', 1).quadtree
    /\ insertReturns' = build.returns
    /\ insertCalls' = build.calls

\* the quadtree memo has run: its tree and what the insert calls returned
Built(build) ==
    /\ quadtree' = build.quadtree
    /\ insertReturns' = build.returns
    /\ insertCalls' = build.calls

\* an item list may grow to MaxItems, and to MaxCluster while all its items
\* have the same bounds
MayAppend(its, shape) ==
    \/ Len(its) < MaxItems
    \/ /\ Len(its) < MaxCluster
       /\ \A i \in 1..Len(its) : GetItemBounds(its[i]) = shape

\* the parent passes an item list that is one item longer: the quadtree
\* memo builds a new tree from an empty root
AppendItem(shape) ==
    /\ ~visible.threw
    /\ items' = Append(items, NewItem(Len(items) + 1, shape))
    /\ Built(BuildQuadtree(items', WorldBounds))
    /\ Rendered(items', quadtree', viewport, bypassQuadtree)
    /\ UNCHANGED << dimensions, viewport, bypassQuadtree >>

\* an item list within the bounds of this model grows by one item
SetItems(shape) == MayAppend(items, shape) /\ AppendItem(shape)

\* the transform handler whose render still uses the viewport of the event
\* before
HandleTransformChangeStale(transform) ==
    /\ ~visible.threw
    /\ viewport' = CalculateViewport(dimensions, transform)
    /\ Rendered(items, quadtree, viewport, bypassQuadtree)
    /\ UNCHANGED << items, quadtree, insertReturns, insertCalls, dimensions,
                    bypassQuadtree >>

\* ZoomPanContainer.handleTransformChange, then handleViewportChange
HandleTransformChange(transform) ==
    /\ ~visible.threw
    /\ viewport' = CalculateViewport(dimensions, transform)
    /\ Rendered(items, quadtree, viewport', bypassQuadtree)
    /\ UNCHANGED << items, quadtree, insertReturns, insertCalls, dimensions,
                    bypassQuadtree >>

\* a resize handler that computes the viewport anew from the new dimensions
\* and hands it on
HandleResizeEmitting(size) ==
    /\ ~visible.threw
    /\ size # dimensions
    /\ dimensions' = size
    /\ viewport' = IF viewport = Null THEN Null
                   ELSE [viewport EXCEPT
                           !.width = FDiv(size.width, viewport.scale),
                           !.height = FDiv(size.height, viewport.scale)]
    /\ Rendered(items, quadtree, viewport', bypassQuadtree)
    /\ UNCHANGED << items, quadtree, insertReturns, insertCalls,
                    bypassQuadtree >>

\* ZoomPanContainer.handleResize
HandleResize(size) ==
    /\ ~visible.threw
    /\ size # dimensions
    /\ dimensions' = size
    /\ Rendered(items, quadtree, viewport, bypassQuadtree)
    /\ UNCHANGED << items, quadtree, insertReturns, insertCalls, viewport,
                    bypassQuadtree >>

\* the "Bypass Quadtree" / "Use Quadtree" button
ToggleBypass ==
    /\ ~visible.threw
    /\ bypassQuadtree' = ~bypassQuadtree
    /\ Rendered(items, quadtree, viewport, bypassQuadtree')
    /\ UNCHANGED << items, quadtree, insertReturns, insertCalls, dimensions,
                    viewport >>

\* the performance monitor is left aside: nothing it holds is read by the
\* renderer, the zoom and pan container or the index
Unmonitored == UNCHANGED << buildTime, queryTime, reports, stats >>

Next ==
    \/ \E shape \in ItemShapes : SetItems(shape) /\ Unmonitored
    \/ \E transform \in Transforms :
          HandleTransformChange(transform) /\ Unmonitored
    \/ \E size \in WindowSizes : HandleResize(size) /\ Unmonitored
    \/ ToggleBypass /\ Unmonitored

Spec == Init /\ [][Next]_vars

\* The caller that passes items whose bounds are no numbers: an item whose x
\* is NaN, an item whose width is NaN, and a proper item on the centre of
\* the world.
MisuseShapes ==
    { [x |-> NaN, y |-> WorldSize \div 4,
       width |-> WorldSize \div 4, height |-> WorldSize \div 4],
      [x |-> WorldSize \div 4, y |-> WorldSize \div 4,
       width |-> NaN, height |-> WorldSize \div 4],
      [x |-> WorldSize \div 2, y |-> WorldSize \div 2, width |-> 0, height |-> 0] }

MisuseNext ==
    \/ \E shape \in MisuseShapes :
          Len(items) < MaxMisuseItems /\ SetItems(shape) /\ Unmonitored
    \/ \E transform \in Transforms :
          HandleTransformChange(transform) /\ Unmonitored
    \/ \E size \in WindowSizes : HandleResize(size) /\ Unmonitored
    \/ ToggleBypass /\ Unmonitored

MisuseSpec == Init /\ [][MisuseNext]_vars

\* The caller whose items crowd the far edge of the world: points on the far
\* corner that fill the root, its southeast child and that child's southeast
\* child, then points on the far edge where two cells of the next level
\* meet, then points on the far corner again.
CornerPoint ==
    [x |-> WorldSize, y |-> WorldSize, width |-> 0, height |-> 0]
EdgePoint ==
    [x |-> WorldSize, y |-> WorldSize - WorldSize \div 6,
     width |-> 0, height |-> 0]
DenseShape(i) ==
    IF i > 3 * CAPACITY /\ i <= 4 * CAPACITY THEN EdgePoint ELSE CornerPoint

DenseNext ==
    \/ /\ Len(items) < MaxDenseItems
       /\ AppendItem(DenseShape(Len(items) + 1))
       /\ Unmonitored
    \/ \E transform \in Transforms :
          HandleTransformChange(transform) /\ Unmonitored
    \/ \E size \in WindowSizes : HandleResize(size) /\ Unmonitored
    \/ ToggleBypass /\ Unmonitored

DenseSpec == Init /\ [][DenseNext]_vars

(* ------------------------ the performance monitor ---------------------- *)

\* what performance.now() - startTime may give for a query: nothing, or
\* some time
ElapsedTimes == {0, 1, 2}
\* and for a build
BuildTimes == {0, 1}

\* the reports of the renderer: the build effect's has itemCount for count,
\* the others have visibleCount
Report(type, time, count) == [type |-> type, time |-> time, count |-> count]

\* a handler that takes the reports of direct renders as well
HandlePerformanceUpdateDirect(st, metrics) ==
    IF metrics.type \in {"quadtree_query", "direct_render"}
    THEN [st EXCEPT !.queryTime = metrics.time,
                    !.visibleItems = metrics.count]
    ELSE st

\* handlePerformanceUpdate(metrics), updateMetrics included, on the
\* statistics st
HandlePerformanceUpdate(st, metrics) ==
    IF metrics.type = "quadtree_query"
    THEN [st EXCEPT !.queryTime = metrics.time,
                    !.visibleItems = metrics.count]
    ELSE st

RECURSIVE HandleAll(_, _)
\* the statistics after the handler has taken the reports in turn
HandleAll(st, rs) ==
    IF rs = << >> THEN st
    ELSE HandleAll(HandlePerformanceUpdate(st, Head(rs)), Tail(rs))

\* the build effect after a commit: it runs when buildTime or itemCount
\* differ from those of the commit before
BuildEffect ==
    IF buildTime' # buildTime \/ Len(items') # Len(items)
    THEN << Report("quadtree_build", buildTime', Len(items')) >>
    ELSE << >>

\* the query performance effect after a commit: it runs when queryTime,
\* visibleCount, bypassQuadtree or items.length differ from those of the
\* commit before
QueryEffect ==
    IF \/ queryTime' # queryTime
       \/ visible'.visibleCount # visible.visibleCount
       \/ bypassQuadtree' # bypassQuadtree
       \/ Len(items') # Len(items)
    THEN IF bypassQuadtree'
         THEN << Report("direct_render", 0, Len(items')) >>
         ELSE IF queryTime' > 0
         THEN << Report("quadtree_query", queryTime', visible'.visibleCount) >>
         ELSE << >>
    ELSE << >>

\* the effects of a commit, in the order of the component, and the handler
\* on each report; a render that threw commits nothing
Effects ==
    /\ reports' = IF visible'.threw THEN << >> ELSE BuildEffect \o QueryEffect
    /\ stats' = HandleAll(stats, reports')

\* the visibleItems memo has run again: its queryTime is 0 on the branches
\* that make no query, else what the clock gave
QueriedIn(elapsed) ==
    queryTime' = IF visible'.threw THEN queryTime
                 ELSE IF bypassQuadtree' \/ viewport' = Null THEN 0
                 ELSE elapsed

\* the parent renders again and passes a bounds function that is a new
\* function object: both memos run again and give what they gave before
RerenderParent(built, elapsed) ==
    /\ ~visible.threw
    /\ Built(BuildQuadtree(items, WorldBounds))
    /\ Rendered(items, quadtree', viewport, bypassQuadtree)
    /\ UNCHANGED << items, dimensions, viewport, bypassQuadtree >>
    /\ buildTime' = built
    /\ QueriedIn(elapsed)
    /\ Effects

MonitorNext ==
    \/ \E shape \in ItemShapes, built \in BuildTimes,
          elapsed \in ElapsedTimes :
          /\ Len(items) < MaxMonitorItems
          /\ AppendItem(shape)
          /\ buildTime' = built
          /\ QueriedIn(elapsed)
          /\ Effects
    \/ \E transform \in Transforms, elapsed \in ElapsedTimes :
          /\ HandleTransformChange(transform)
          /\ buildTime' = buildTime
          /\ QueriedIn(elapsed)
          /\ Effects
    \/ \E size \in WindowSizes :
          /\ HandleResize(size)
          /\ UNCHANGED << buildTime, queryTime >>
          /\ Effects
    \/ \E elapsed \in ElapsedTimes :
          /\ ToggleBypass
          /\ buildTime' = buildTime
          /\ QueriedIn(elapsed)
          /\ Effects
    \/ \E built \in BuildTimes, elapsed \in ElapsedTimes :
          RerenderParent(built, elapsed)

MonitorSpec == Init /\ [][MonitorNext]_vars

(* ----------------------- vocabulary of the claims ----------------------- *)

RootBoundary == quadtree[RootPath].boundary
\* the wrapper the build made of item i; an item's id is its place in items
Anchor(i) == QuadtreeItem(items[i])
\* the items whose root insert returned true
Inserted == { i \in 1..Len(items) : insertReturns[i] = RetTrue }
\* the places (node, index) at which the item with this id is stored
StoredPlaces(id) ==
    { pl \in { << path, k >> : path \in DOMAIN quadtree, k \in 1..CAPACITY } :
        /\ pl[2] <= Len(quadtree[pl[1]].dots)
        /\ quadtree[pl[1]].dots[pl[2]].id = id }
IsPrefix(p, q) == Len(p) <= Len(q) /\ SubSeq(q, 1, Len(p)) = p
Ids(dots) == { dots[k].id : k \in 1..Len(dots) }
\* the items a query result holds: those of the array, none when it is undefined
ResultItems(q) == IF q.ret = RetArray THEN q.found ELSE << >>

\* query rectangles: the world, its southwest quarter, a zero-size one on the
\* far corner, one of negative width inside the world, one of negative width
\* left of the world, one off the world, and a small one at the eastern edge
\* of the world's northeast quarter
ProbeRanges ==
    { Rectangle(0, 0, WorldSize, WorldSize),
      Rectangle(WorldSize - WorldSize \div 6, WorldSize \div 4,
                WorldSize \div 6, WorldSize \div 6),
      Rectangle(0, WorldSize \div 2, WorldSize \div 2, WorldSize \div 2),
      Rectangle(WorldSize, WorldSize, 0, 0),
      Rectangle(WorldSize \div 2, WorldSize \div 2, 0 - (WorldSize \div 4), WorldSize \div 2),
      Rectangle(WorldSize \div 4, 0, 0 - (WorldSize \div 2), WorldSize),
      Rectangle(2 * WorldSize, 2 * WorldSize, WorldSize \div 2, WorldSize \div 2) }

\* anchor points offered to insert: those of the item shapes and the world's
\* origin and centre
ProbeDots ==
    { QuadtreeItem(NewItem(0, shape)) : shape \in ItemShapes }
    \cup { QuadtreeItem(NewItem(0, [x |-> c, y |-> c, width |-> 0, height |-> 0])) :
             c \in {0, WorldSize \div 2} }

\* the brute-force scan: the inserted items whose anchor the rectangle contains
LinearScan(range) == { i \in Inserted : Contains(range, Anchor(i)) }

(* -------------------------------- C1 ---------------------------------- *)

\* C1: for every query rectangle the items of query's result are exactly the
\* successfully inserted items whose anchor the rectangle contains, each
\* once, as a linear scan finds them; and a node whose boundary does not
\* intersect the rectangle stores no matching item, nor does any node below it.
C1_QueryEqualsLinearScan ==
    \A range \in ProbeRanges :
        LET found == ResultItems(Query(quadtree, range))
        IN  /\ Ids(found) = LinearScan(range)
            /\ Len(found) = Cardinality(LinearScan(range))
            /\ \A p \in DOMAIN quadtree :
                 ~Intersects(quadtree[p].boundary, range) =>
                     \A q \in DOMAIN quadtree :
                         IsPrefix(p, q) =>
                             \A k \in 1..Len(quadtree[q].dots) :
                                 ~Contains(range, quadtree[q].dots[k])

\* a subdivided tree and a rectangle that matches some stored items but not
\* all, with a pruned node that stores items
C1_Witness ==
    /\ quadtree[RootPath].divided
    /\ \E range \in ProbeRanges :
         /\ LinearScan(range) # {}
         /\ LinearScan(range) # Inserted
         /\ \E p \in DOMAIN quadtree :
              /\ ~Intersects(quadtree[p].boundary, range)
              /\ quadtree[p].dots # << >>

(* -------------------------------- C2 ---------------------------------- *)

\* the rectangle the visibleItems memo queries with
ViewRect == BufferedViewport(viewport, DefaultBufferScale)
\* the renderer is in quadtree mode, has a viewport and rendered
QueryRendered == ~bypassQuadtree /\ viewport # Null /\ ~visible.threw
\* the bounds of item i as a rectangle
BoundsRect(i) ==
    LET b == GetItemBounds(items[i])
    IN  Rectangle(b.x, b.y, b.width, b.height)

\* C2 as stated: every inserted item whose bounds overlap the query rectangle
\* is returned by the query and rendered.
C2_OverlappingItemsReturned ==
    QueryRendered =>
        \A i \in Inserted :
            Intersects(BoundsRect(i), ViewRect) =>
                \E k \in 1..Len(renderCalls) : renderCalls[k] = items[i]

\* C2 as amended: every inserted item whose anchor point, the centre of its
\* bounds, is contained in the query rectangle is returned by the query and
\* rendered, and an item that is rendered has its anchor point in the
\* rectangle; that its bounds overlap the rectangle does not suffice.
C2_AnchoredItemsReturned ==
    QueryRendered =>
        \A i \in Inserted :
            Contains(ViewRect, Anchor(i)) <=>
                \E k \in 1..Len(renderCalls) : renderCalls[k] = items[i]

\* one inserted item is rendered and another, whose bounds overlap the query
\* rectangle while its centre lies outside it, is not
C2_Witness ==
    /\ QueryRendered
    /\ renderCalls # << >>
    /\ \E i \in Inserted :
         /\ Intersects(BoundsRect(i), ViewRect)
         /\ ~Contains(ViewRect, Anchor(i))
         /\ \A k \in 1..Len(renderCalls) : renderCalls[k] # items[i]

(* -------------------------------- C3 ---------------------------------- *)

\* C3: every successfully inserted item is stored at exactly one place of
\* exactly one node, and no query result holds an item twice.
C3_NoDuplicates ==
    /\ \A i \in Inserted : Cardinality(StoredPlaces(i)) = 1
    /\ \A range \in ProbeRanges :
         LET found == ResultItems(Query(quadtree, range))
         IN  \A k1, k2 \in 1..Len(found) :
                 found[k1].id = found[k2].id => k1 = k2

\* an item is stored in a child of a full node while a sibling of that child
\* contains its anchor too, and a query returns it
C3_Witness ==
    \E p \in DOMAIN quadtree :
        /\ quadtree[p].divided
        /\ \E q1, q2 \in Quadrants :
             /\ q1 # q2
             /\ \E k \in 1..Len(quadtree[Child(p, q1)].dots) :
                  LET dot == quadtree[Child(p, q1)].dots[k]
                  IN  /\ Contains(quadtree[Child(p, q2)].boundary, dot)
                      /\ \E range \in ProbeRanges :
                           dot.id \in Ids(ResultItems(Query(quadtree, range)))

(* -------------------------------- C4 ---------------------------------- *)

\* C4: the build inserts every item of the list; an item whose anchor lies
\* outside the root boundary gets false from insert, is stored in no node
\* and is in no query result, and the build goes on: the items listed after
\* it are inserted, and those whose insert returns true are stored.
C4_OutsideItemsDropped ==
    /\ Len(insertReturns) = Len(items)
    /\ \A i \in 1..Len(items) :
         ~Contains(RootBoundary, Anchor(i)) =>
             /\ insertReturns[i] = RetFalse
             /\ StoredPlaces(i) = {}
             /\ \A range \in ProbeRanges :
                  i \notin Ids(ResultItems(Query(quadtree, range)))
             /\ ~bypassQuadtree =>
                  \A k \in 1..Len(renderCalls) : renderCalls[k] # items[i]
             /\ \A j \in (i + 1)..Len(items) :
                  insertReturns[j] = RetTrue => StoredPlaces(j) # {}

\* an item with its anchor outside the world is followed by one inside it,
\* and the renderer has queried and rendered
C4_Witness ==
    /\ QueryRendered
    /\ renderCalls # << >>
    /\ \E i \in 1..Len(items) :
         /\ ~Contains(RootBoundary, Anchor(i))
         /\ \E j \in (i + 1)..Len(items) : Contains(RootBoundary, Anchor(j))

(* -------------------------------- C5 ---------------------------------- *)

\* C5: every insert call returns a boolean, and a root insert returns true
\* exactly when the root boundary contains the anchor, and false otherwise.
C5_InsertReturnsBoolean ==
    /\ insertCalls \subseteq {RetTrue, RetFalse}
    /\ \A i \in 1..Len(items) :
         insertReturns[i] =
             IF Contains(RootBoundary, Anchor(i)) THEN RetTrue ELSE RetFalse

(* -------------------------------- C6 ---------------------------------- *)

\* C6: insert on a node whose boundary does not contain the anchor returns
\* false and leaves the whole tree as it was.
C6_RejectedInsertChangesNothing ==
    \A p \in DOMAIN quadtree :
        \A dot \in ProbeDots :
            ~Contains(quadtree[p].boundary, dot) =>
                LET r == Insert(quadtree, p, dot)
                IN  r.ret = RetFalse /\ r.tree = quadtree

\* a full, subdivided node below the root rejects an anchor that the root
\* contains
C6_Witness ==
    \E p \in DOMAIN quadtree :
        /\ p # RootPath
        /\ quadtree[p].divided
        /\ \E dot \in ProbeDots :
             /\ Contains(RootBoundary, dot)
             /\ ~Contains(quadtree[p].boundary, dot)
             /\ Insert(quadtree, p, dot).ret = RetFalse

(* -------------------------------- C7 ---------------------------------- *)

\* C7: for every query rectangle, query on the root without an accumulator
\* returns a sequence of items.
C7_QueryReturnsSequence ==
    \A range \in ProbeRanges : Query(quadtree, range).ret = RetArray

(* -------------------------------- C8 ---------------------------------- *)

\* C8: in quadtree mode with a viewport present the visible-items
\* computation raises no error and yields a sequence and its count, both
\* empty when the buffered viewport lies off the world.
C8_VisibleItemsNeverThrows ==
    (~bypassQuadtree /\ viewport # Null) =>
        /\ ~visible.threw
        /\ visible.visibleCount = Len(visible.visibleItems)
        /\ ~Intersects(RootBoundary, ViewRect) =>
               visible.visibleItems = << >> /\ visible.visibleCount = 0

(* -------------------------------- C9 ---------------------------------- *)

\* C9: in bypass mode renderItem is handed the items of the item list, each
\* once and in the list's order, whatever the viewport, and the
\* visible-items computation passes no rectangle to Quadtree.query.
C9_BypassRendersAllItems ==
    bypassQuadtree =>
        /\ ~visible.threw
        /\ renderCalls = items
        /\ visible.visibleCount = Len(items)
        /\ visible.queries = << >>

\* bypass mode with an item the index dropped, once without a viewport
C9_Witness ==
    /\ bypassQuadtree
    /\ viewport = Null
    /\ Len(items) >= 2
    /\ \E i \in 1..Len(items) : insertReturns[i] = RetFalse

(* -------------------------------- C10 --------------------------------- *)

\* C10: while the viewport is absent and bypass mode is off, nothing is
\* visible, the boundary enumeration is empty and no rectangle is passed to
\* Quadtree.query.
C10_NoViewportNoQuery ==
    (viewport = Null /\ ~bypassQuadtree) =>
        /\ visible.visibleItems = << >>
        /\ visible.visibleCount = 0
        /\ renderCalls = << >>
        /\ overlayBounds = << >>
        /\ visible.queries = << >>

\* no viewport yet, bypass off, and a subdivided tree that stores items
C10_Witness ==
    /\ viewport = Null
    /\ ~bypassQuadtree
    /\ quadtree[RootPath].divided
    /\ Inserted # {}

(* -------------------------------- C11 --------------------------------- *)

\* C11: in quadtree mode with a viewport, renderItem is handed items of the
\* caller's list and not their wrappers, in the order of the query result,
\* and they are exactly the items whose bounds centre both the world
\* boundary and the buffered viewport contain.
C11_RendersItemsInsideWorldAndViewport ==
    QueryRendered =>
        /\ Len(renderCalls) = Len(visible.visibleItems)
        /\ \A k \in 1..Len(renderCalls) :
             /\ renderCalls[k] = visible.visibleItems[k].originalItem
             /\ renderCalls[k].id \in 1..Len(items)
             /\ renderCalls[k] = items[renderCalls[k].id]
        /\ visible.visibleItems = ResultItems(Query(quadtree, ViewRect))
        /\ { renderCalls[k].id : k \in 1..Len(renderCalls) } =
               { i \in 1..Len(items) :
                    /\ Contains(RootBoundary, Anchor(i))
                    /\ Contains(ViewRect, Anchor(i)) }

(* -------------------------------- C12 --------------------------------- *)

\* the renderer is in quadtree mode and has a viewport
QueryMode == ~bypassQuadtree /\ viewport # Null

\* C12: the one rectangle the visible-items computation passes to query has
\* origin (x - width*b, y - height*b) and size (width + 2*(width*b),
\* height + 2*(height*b)), for viewport {x, y, width, height} and buffer
\* fraction b, each operation rounded as the program's numbers are.
C12_BufferedRectangle ==
    QueryMode =>
        /\ Len(visible.queries) = 1
        /\ visible.queries[1].x =
               FSub(viewport.x, FScale(viewport.width, DefaultBufferScale))
        /\ visible.queries[1].y =
               FSub(viewport.y, FScale(viewport.height, DefaultBufferScale))
        /\ visible.queries[1].width =
               FAdd(viewport.width,
                    FDouble(FScale(viewport.width, DefaultBufferScale)))
        /\ visible.queries[1].height =
               FAdd(viewport.height,
                    FDouble(FScale(viewport.height, DefaultBufferScale)))

\* a viewport away from the origin whose buffer is not zero: the rectangle
\* starts before the viewport and is larger than it
C12_Witness ==
    /\ QueryMode
    /\ viewport.y > 0
    /\ visible.queries[1].x < viewport.x
    /\ visible.queries[1].y < viewport.y
    /\ visible.queries[1].width > viewport.width

(* -------------------------------- C13 --------------------------------- *)

\* buffer fractions a caller may pass as bufferScale: none, the default and
\* twice the default
BufferScales ==
    { [num |-> 0, den |-> 1], DefaultBufferScale,
      [num |-> 2 * BufferScaleNum, den |-> BufferScaleDen] }
\* b1 < b2, for fractions with positive denominators
LessFraction(b1, b2) == b1.num * b2.den < b2.num * b1.den

\* C13: for the viewport at hand and buffer fractions b1 < b2, the rectangle
\* derived with b2 contains every point that the rectangle derived with b1
\* contains, and the query result for b2 holds every item of the result for
\* b1.
C13_BufferingMonotone ==
    viewport # Null =>
        \A b1, b2 \in BufferScales :
            LessFraction(b1, b2) =>
                /\ \A p \in ProbeDots :
                     Contains(BufferedViewport(viewport, b1), p) =>
                         Contains(BufferedViewport(viewport, b2), p)
                /\ Ids(ResultItems(Query(quadtree, BufferedViewport(viewport, b1))))
                     \subseteq
                   Ids(ResultItems(Query(quadtree, BufferedViewport(viewport, b2))))

(* -------------------------------- C14 --------------------------------- *)

AllPlaces ==
    UNION { { << path, k >> : k \in 1..Len(quadtree[path].dots) } :
              path \in DOMAIN quadtree }

\* C15: the number of items stored over all nodes of the tree equals the
\* number of root inserts that returned true, and is at most the number of
\* items offered.
C15_CountConservation ==
    /\ Cardinality(AllPlaces) = Cardinality(Inserted)
    /\ Cardinality(AllPlaces) <= Len(items)

\* a build that subdivided the root and in which a root insert returned
\* undefined, so that fewer items are stored than were offered
C15_Witness ==
    /\ quadtree[RootPath].divided
    /\ \E i \in 1..Len(items) : insertReturns[i] = RetUndefined
    /\ Cardinality(AllPlaces) < Len(items)

(* -------------------------------- C16 --------------------------------- *)

RECURSIVE PreOrder(_, _)
RECURSIVE PreOrderChildren(_, _, _)
\* the nodes of the subtree at path in pre-order, the children of a
\* subdivided node in the order in which query visits them
PreOrder(tree, path) ==
    << path >> \o (IF tree[path].divided
                   THEN PreOrderChildren(tree, path, 1) ELSE << >>)
PreOrderChildren(tree, path, k) ==
    IF k > Len(QueryOrder) THEN << >>
    ELSE PreOrder(tree, Child(path, QueryOrder[k]))
         \o PreOrderChildren(tree, path, k + 1)

\* the boundaries of the nodes of the tree at hand that intersect range, in
\* pre-order
IntersectingBounds(range) ==
    LET hit == SelectSeq(PreOrder(quadtree, RootPath),
                         LAMBDA p : Intersects(quadtree[p].boundary, range))
    IN  [k \in 1..Len(hit) |-> BoundsEntry(quadtree[hit[k]].boundary)]

\* C16: for every rectangle the boundary enumeration gives the boundary of
\* exactly the nodes whose boundary intersects the rectangle, each once, in
\* pre-order with the children in the order northwest, northeast, southwest,
\* southeast; no node that intersects the rectangle lies below a node that
\* does not.  What the overlay is given is that enumeration for the buffered
\* viewport.
C16_BoundaryEnumeration ==
    /\ \A range \in ProbeRanges :
         CollectVisibleBounds(quadtree, RootPath, range, << >>)
             = IntersectingBounds(range)
    /\ (viewport # Null /\ ~visible.threw) =>
         overlayBounds = IntersectingBounds(ViewRect)

(* -------------------------------- C17 --------------------------------- *)

\* C17: no node of the tree holds more than CAPACITY items; and an insert
\* into a node that holds fewer and whose boundary contains the anchor
\* returns true and leaves the tree as it was but for the item added at the
\* end of that node's list: no node is created and no other node changes.
C17_CapacityAndAppend ==
    /\ CAPACITY = 4
    /\ \A p \in DOMAIN quadtree : Len(quadtree[p].dots) <= CAPACITY
    /\ \A p \in DOMAIN quadtree : \A dot \in ProbeDots :
         (/\ Len(quadtree[p].dots) < CAPACITY
          /\ Contains(quadtree[p].boundary, dot)) =>
             /\ Insert(quadtree, p, dot).ret = RetTrue
             /\ Insert(quadtree, p, dot).tree
                  = [quadtree EXCEPT ![p].dots = Append(@, dot)]

\* a full root over a child that holds some items and has room, and that
\* contains an anchor offered to it
C17_Witness ==
    /\ Len(quadtree[RootPath].dots) = CAPACITY
    /\ \E p \in DOMAIN quadtree : \E dot \in ProbeDots :
         /\ p # RootPath
         /\ Len(quadtree[p].dots) \in 1..(CAPACITY - 1)
         /\ Contains(quadtree[p].boundary, dot)

(* -------------------------------- C18 --------------------------------- *)

\* the example of the specification in numbers the format represents: five
\* items with anchor (10, 10) in a world of 96 by 96
ExampleItems ==
    [i \in 1..(CAPACITY + 1) |->
        NewItem(i, [x |-> 10, y |-> 10, width |-> 0, height |-> 0])]
ExampleBuild == BuildQuadtree(ExampleItems, [width |-> 96, height |-> 96])

\* the full nodes of the tree
FullNodes == { p \in DOMAIN quadtree : Len(quadtree[p].dots) = CAPACITY }

\* an insert call on a full node leaves the node's list as it is, and an
\* item the call accepts is afterwards the last item of a node below it
FullNodeKeepsItems ==
    \A p \in FullNodes : \A dot \in ProbeDots :
        /\ Insert(quadtree, p, dot).tree[p].dots = quadtree[p].dots
        /\ Insert(quadtree, p, dot).ret = RetTrue =>
             \E q \in DOMAIN Insert(quadtree, p, dot).tree :
                 /\ IsPrefix(p, q) /\ q # p
                 /\ Insert(quadtree, p, dot).tree[q].dots # << >>
                 /\ Insert(quadtree, p, dot).tree[q].dots[
                        Len(Insert(quadtree, p, dot).tree[q].dots)] = dot

\* in the example the first four items are at the root, in order, the root
\* has its four children and no other node exists, and the fifth item is in
\* the northwest child
ExampleHolds ==
    /\ ExampleBuild.returns = [i \in 1..(CAPACITY + 1) |-> RetTrue]
    /\ Len(ExampleBuild.quadtree[RootPath].dots) = CAPACITY
    /\ \A i \in 1..CAPACITY :
         ExampleBuild.quadtree[RootPath].dots[i].originalItem = ExampleItems[i]
    /\ DOMAIN ExampleBuild.quadtree
         = {RootPath} \cup { Child(RootPath, q) : q \in Quadrants }
    /\ \A q \in Quadrants :
         Len(ExampleBuild.quadtree[Child(RootPath, q)].dots)
             = IF q = "northwest" THEN 1 ELSE 0
    /\ ExampleBuild.quadtree[Child(RootPath, "northwest")].dots[1].originalItem
         = ExampleItems[CAPACITY + 1]

\* a step of the program keeps every full node and its list
FullNodesStay ==
    \A p \in FullNodes :
        p \in DOMAIN quadtree' /\ quadtree'[p].dots = quadtree[p].dots

\* C18: a node that holds 4 items keeps exactly these items, in their order,
\* through its subdivision, through every further insert call made on it and
\* through every step of the program; an item such a call accepts is stored
\* in a node below it; and five inserts of one anchor in the northwest
\* quarter put four items at the root, subdivide the root once and put the
\* fifth item in a child.
C18_FullNodeKeepsItems ==
    /\ [](FullNodeKeepsItems /\ ExampleHolds)
    /\ [][FullNodesStay]_vars

\* a full root that is subdivided, a full node below it, and items below
\* that node
C18_Witness ==
    /\ RootPath \in FullNodes
    /\ \E p \in FullNodes : \E q \in DOMAIN quadtree :
         /\ p # RootPath
         /\ quadtree[p].divided
         /\ IsPrefix(p, q) /\ q # p
         /\ quadtree[q].dots # << >>

(* -------------------------------- C19 --------------------------------- *)

\* the subdivided nodes of the tree
DividedNodes == { p \in DOMAIN quadtree : quadtree[p].divided }
\* the boundary of the child of p in quadrant q
ChildBoundary(p, q) == quadtree[Child(p, q)].boundary
\* the far edges of a boundary, as contains and intersects compute them
FarX(b) == FAdd(b.x, b.w)
FarY(b) == FAdd(b.y, b.h)
\* boundary c lies inside boundary b
Inside(c, b) ==
    /\ c.x >= b.x /\ c.y >= b.y
    /\ FarX(c) <= FarX(b) /\ FarY(c) <= FarY(b)
\* the point lies on an edge of the boundary
OnEdge(b, point) ==
    \/ point.cx = b.x \/ point.cx = FarX(b)
    \/ point.cy = b.y \/ point.cy = FarY(b)

\* C19: every subdivided node with boundary (x, y, W, H) has four children
\* of size (W/2, H/2) at northwest (x, y), northeast (x + W/2, y),
\* southwest (x, y + H/2) and southeast (x + W/2, y + H/2); every point the
\* parent's boundary contains is contained in a child boundary; every child
\* boundary lies inside the parent's; and a point that two children contain
\* lies on an edge of both.
C19_SubdivideTiles ==
    \A p \in DividedNodes :
        /\ \A q \in Quadrants :
             /\ Child(p, q) \in DOMAIN quadtree
             /\ 2 * ChildBoundary(p, q).w = quadtree[p].boundary.w
             /\ 2 * ChildBoundary(p, q).h = quadtree[p].boundary.h
             /\ ChildBoundary(p, q).x
                  = IF q \in {"northwest", "southwest"}
                    THEN quadtree[p].boundary.x
                    ELSE FAdd(quadtree[p].boundary.x, ChildBoundary(p, q).w)
             /\ ChildBoundary(p, q).y
                  = IF q \in {"northwest", "northeast"}
                    THEN quadtree[p].boundary.y
                    ELSE FAdd(quadtree[p].boundary.y, ChildBoundary(p, q).h)
        /\ \A dot \in ProbeDots :
             Contains(quadtree[p].boundary, dot) =>
                 \E q \in Quadrants : Contains(ChildBoundary(p, q), dot)
        /\ \A q \in Quadrants : Inside(ChildBoundary(p, q), quadtree[p].boundary)
        /\ \A q1, q2 \in Quadrants : \A dot \in ProbeDots :
             (/\ q1 # q2
              /\ Contains(ChildBoundary(p, q1), dot)
              /\ Contains(ChildBoundary(p, q2), dot)) =>
                 OnEdge(ChildBoundary(p, q1), dot) /\ OnEdge(ChildBoundary(p, q2), dot)

(* -------------------------------- C20 --------------------------------- *)

\* the places in InsertOrder of the children of p whose boundary contains
\* the dot
ContainingChildren(tree, p, dot) ==
    { k \in 1..Len(InsertOrder) :
        Contains(tree[Child(p, InsertOrder[k])].boundary, dot) }
\* the dot is in the list of p or of a node below p
StoredUnder(tree, p, dot) ==
    \E q \in DOMAIN tree :
        /\ IsPrefix(p, q)
        /\ \E i \in 1..Len(tree[q].dots) : tree[q].dots[i] = dot
\* a dot anchored at (c, c)
PointDot(c) ==
    QuadtreeItem(NewItem(0, [x |-> c, y |-> c, width |-> 0, height |-> 0]))

\* C20: after an insert call on a full node whose boundary contains the
\* anchor, the item is stored under the first child, in the order northeast,
\* northwest, southeast, southwest, whose boundary contains the anchor; the
\* centre of the root, which all four children contain, is stored under
\* northeast, and the origin, below both midlines, under northwest.
C20_FirstContainingChild ==
    /\ InsertOrder = << "northeast", "northwest", "southeast", "southwest" >>
    /\ \A p \in FullNodes : \A dot \in ProbeDots :
         Contains(quadtree[p].boundary, dot) =>
             \A k \in ContainingChildren(SubdivideOnce(quadtree, p), p, dot) :
                 (\A j \in ContainingChildren(SubdivideOnce(quadtree, p), p, dot) :
                      k <= j) =>
                     StoredUnder(Insert(quadtree, p, dot).tree,
                                 Child(p, InsertOrder[k]), dot)
    /\ RootPath \in FullNodes =>
         /\ ContainingChildren(SubdivideOnce(quadtree, RootPath), RootPath,
                               PointDot(WorldSize \div 2)) = 1..4
         /\ StoredUnder(Insert(quadtree, RootPath, PointDot(WorldSize \div 2)).tree,
                        Child(RootPath, "northeast"), PointDot(WorldSize \div 2))
         /\ ContainingChildren(SubdivideOnce(quadtree, RootPath), RootPath,
                               PointDot(0)) = {2}
         /\ StoredUnder(Insert(quadtree, RootPath, PointDot(0)).tree,
                        Child(RootPath, "northwest"), PointDot(0))

(* -------------------------------- C21 --------------------------------- *)

\* the node at path and every node above it intersect range: the nodes a
\* query for range visits
Visited(path, range) ==
    \A k \in 0..Len(path) :
        Intersects(quadtree[SubSeq(path, 1, k)].boundary, range)

RECURSIVE MatchesOf(_, _)
\* the items of the listed nodes that range contains, node after node, the
\* items of one node in the order of its list
MatchesOf(paths, range) ==
    IF paths = << >> THEN << >>
    ELSE SelectContained(quadtree[Head(paths)].dots, range)
         \o MatchesOf(Tail(paths), range)

\* the visited nodes in pre-order, children in the order northwest,
\* northeast, southwest, southeast
VisitedPreOrder(range) ==
    SelectSeq(PreOrder(quadtree, RootPath), LAMBDA p : Visited(p, range))

TreeKept == items' = items => quadtree' = quadtree
\* a step that changes the item list leaves a tree built from an empty root
TreeFresh ==
    items' # items => quadtree' = BuildQuadtree(items', WorldBounds).quadtree

NonFinite(item) ==
    \/ IsNaN(GetItemBounds(item).x) \/ IsNaN(GetItemBounds(item).y)
    \/ IsNaN(GetItemBounds(item).width) \/ IsNaN(GetItemBounds(item).height)

\* C23: when the item list holds an item whose bounds have a coordinate that
\* is no finite number, the build ends before any insert reaches the tree:
\* no insert call was made and the tree holds no item.
C23_MisuseFailsFast ==
    (\E i \in 1..Len(items) : NonFinite(items[i])) =>
        /\ insertReturns = << >>
        /\ insertCalls = {}
        /\ \A p \in DOMAIN quadtree : quadtree[p].dots = << >>

(* -------------------------------- C24 --------------------------------- *)

\* the viewport the claim names for a transform event
EventViewport(transform) ==
    [isNull |-> FALSE,
     x |-> FDiv(0 - transform.positionX, transform.scale),
     y |-> FDiv(0 - transform.positionY, transform.scale),
     width |-> FDiv(dimensions.width, transform.scale),
     height |-> FDiv(dimensions.height, transform.scale),
     scale |-> transform.scale]

\* the items that belong to a viewport: every item in bypass mode, else the
\* inserted items whose anchor the buffered viewport contains
ItemsOf(vp) ==
    IF bypassQuadtree THEN 1..Len(items)
    ELSE LinearScan(BufferedViewport(vp, DefaultBufferScale))

\* what is rendered belongs to the viewport held
RenderedFromViewport ==
    viewport # Null =>
        /\ { renderCalls[k].id : k \in 1..Len(renderCalls) } = ItemsOf(viewport)
        /\ Len(renderCalls) = Cardinality(ItemsOf(viewport))

\* a transform event delivers the viewport of the event, and the
\* visibleItems memo runs anew with it
TransformDelivered ==
    \A transform \in Transforms :
        HandleTransformChange(transform) =>
            /\ viewport' = EventViewport(transform)
            /\ ~bypassQuadtree =>
                  visible'.queries =
                      << BufferedViewport(EventViewport(transform),
                                          DefaultBufferScale) >>
            /\ { renderCalls'[k].id : k \in 1..Len(renderCalls') } =
                   ItemsOf(EventViewport(transform))

\* C24: every transform event leaves the viewport {x: -positionX/scale,
\* y: -positionY/scale, width: containerWidth/scale, height:
\* containerHeight/scale, scale} with the renderer, the visible items are
\* computed anew from it, and what is rendered always belongs to the viewport
\* of the most recent event.
C24_ViewportFollowsTransform ==
    []RenderedFromViewport /\ [][TransformDelivered]_vars

\* a zoomed viewport, delivered by a transform event, under which some items
\* are rendered, and not the items that belong to the initial transform's
\* viewport
C24_Witness ==
    /\ QueryRendered
    /\ viewport.scale = 2
    /\ renderCalls # << >>
    /\ ItemsOf(viewport) #
           ItemsOf(EventViewport([scale |-> 1, positionX |-> 0,
                                  positionY |-> 0]))

(* -------------------------------- C25 --------------------------------- *)

\* the nodes on the way from the root to the node at path, that node included
AncestorsOrSelf(path) == { q \in DOMAIN quadtree : IsPrefix(q, path) }

\* C25: every item in a node's list has its anchor point contained, edges
\* included, in the boundary of that node and in the boundary of every
\* ancestor of that node.
C25_StoredItemsInsideBoundaries ==
    \A p \in DOMAIN quadtree :
        \A k \in 1..Len(quadtree[p].dots) :
            \A q \in AncestorsOrSelf(p) :
                Contains(quadtree[q].boundary, quadtree[p].dots[k])

\* an item is stored two levels below the root, in a node with a parent and
\* a grandparent that are both full
C25_Witness ==
    \E p \in DOMAIN quadtree :
        /\ Len(p) >= 2
        /\ quadtree[p].dots # << >>
        /\ \A q \in AncestorsOrSelf(p) :
             q # p => Len(quadtree[q].dots) = CAPACITY

(* -------------------------------- C26 --------------------------------- *)

\* the node at path has all four children
HasFourChildren(tree, path) ==
    \A q \in Quadrants : Child(path, q) \in DOMAIN tree

\* a node has children exactly when its divided flag is set, it has all four
\* of them then, and it holds CAPACITY items itself
ChildrenIffDivided ==
    \A p \in DOMAIN quadtree :
        /\ HasChildren(quadtree, p) <=> quadtree[p].divided
        /\ quadtree[p].divided =>
              /\ HasFourChildren(quadtree, p)
              /\ Len(quadtree[p].dots) = CAPACITY
        /\ ~quadtree[p].divided =>
              \A q \in Quadrants : Child(p, q) \notin DOMAIN quadtree

\* the tree after one more insert at the root keeps every node the tree
\* has, with its boundary, its divided flag once set, and the items it holds
\* in their places
KeepsNodes(after) ==
    \A p \in DOMAIN quadtree :
        /\ p \in DOMAIN after
        /\ after[p].boundary = quadtree[p].boundary
        /\ quadtree[p].divided => after[p].divided
        /\ Len(after[p].dots) >= Len(quadtree[p].dots)
        /\ SubSeq(after[p].dots, 1, Len(quadtree[p].dots)) = quadtree[p].dots

\* C26: a node has children exactly when its divided flag is set, a divided
\* node holds exactly CAPACITY items, and an insert never replaces the
\* children a node has: every node stays, with the items stored in it.
C26_ChildrenMadeOnce ==
    /\ ChildrenIffDivided
    /\ \A dot \in ProbeDots :
          KeepsNodes(Insert(quadtree, RootPath, dot).tree)

\* a divided root with a divided child that has items below it, and an insert
\* that passes through both and is stored
C26_Witness ==
    /\ quadtree[RootPath].divided
    /\ \E q \in Quadrants :
          /\ quadtree[Child(RootPath, q)].divided
          /\ \E r \in Quadrants :
                quadtree[Child(Child(RootPath, q), r)].dots # << >>
    /\ \E dot \in ProbeDots :
          LET ins == Insert(quadtree, RootPath, dot)
          IN  /\ ins.ret = RetTrue
              /\ \E p \in DOMAIN quadtree :
                    Len(p) >= 2 /\ ins.tree[p].dots # quadtree[p].dots

(* -------------------------------- C27 --------------------------------- *)

\* the anchor points offered to one more insert: the probe dots and the
\* anchors of the items of the list
InsertProbes ==
    ProbeDots \cup { QuadtreeItem(NewItem(0, GetItemBounds(items[i]))) :
                       i \in 1..Len(items) }

\* the number of items the tree stores
StoredCount == Cardinality(AllPlaces)

\* the full nodes an insert of the dot can come to: those that contain the
\* dot, as do all nodes above them, which are full as well
FullOnWay(dot) ==
    { p \in FullNodes :
        \A q \in AncestorsOrSelf(p) :
            /\ Contains(quadtree[q].boundary, dot)
            /\ Len(quadtree[q].dots) = CAPACITY }

\* the nodes that the insert leading to the tree after subdivided
NewlyDivided(after) ==
    { p \in DOMAIN after : after[p].divided }
        \ { p \in DOMAIN quadtree : quadtree[p].divided }

\* C27: one more insert at the root returns, having come to at most
\* floor(k / 4) full nodes of a tree that stores k items and having
\* subdivided at most one node.
C27_InsertBounded ==
    \A dot \in InsertProbes :
        LET ins == Insert(quadtree, RootPath, dot)
        IN  /\ ins.ret \in {RetTrue, RetFalse, RetUndefined}
            /\ CAPACITY * Cardinality(FullOnWay(dot)) <= StoredCount
            /\ Cardinality(NewlyDivided(ins.tree)) <= 1

(* -------------------------------- C28 --------------------------------- *)

\* the reports of the query performance effect after the last commit
QueryEffectReports ==
    SelectSeq(reports, LAMBDA r : r.type # "quadtree_build")

\* in bypass mode the query performance effect reports direct renders only
DirectRenderOnly ==
    bypassQuadtree =>
        \A k \in 1..Len(QueryEffectReports) :
            QueryEffectReports[k].type = "direct_render"

\* a step that ends in bypass mode leaves the statistics as they are
StatsKeptInBypass == bypassQuadtree' => stats' = stats

\* the statistics change only in a step that ends in quadtree mode and in
\* which a query is reported, and they are those of the report
StatsFollowQueryReport ==
    stats' # stats =>
        /\ ~bypassQuadtree'
        /\ \E k \in 1..Len(reports') :
              /\ reports'[k].type = "quadtree_query"
              /\ stats'.queryTime = reports'[k].time
              /\ stats'.visibleItems = reports'[k].count

ResizeKeepsViewport ==
    dimensions' # dimensions =>
        /\ viewport' = viewport
        /\ visible' = visible
        /\ renderCalls' = renderCalls
        /\ overlayBounds' = overlayBounds

\* the viewport changes only by a transform event, which computes it from
\* the dimensions of that moment
ViewportOnlyByTransform ==
    viewport' # viewport =>
        /\ dimensions' = dimensions
        /\ \E transform \in Transforms : viewport' = EventViewport(transform)

RectanglesAtHand ==
    ProbeRanges
        \cup { quadtree[p].boundary : p \in DOMAIN quadtree }
        \cup { BoundsRect(i) : i \in 1..Len(items) }
        \cup (IF viewport = Null THEN {} ELSE {ViewRect})

\* the two rectangles have a point of an edge in common and no more: the
\* far edge of one is the near edge of the other
Touching(a, b) ==
    /\ \/ FAdd(a.x, a.width) = b.x
       \/ FAdd(a.y, a.height) = b.y
    /\ LessEq(a.x, b.x) /\ LessEq(b.x, FAdd(a.x, a.width))
    /\ LessEq(a.y, b.y) /\ LessEq(b.y, FAdd(a.y, a.height))
    /\ GreaterEq(b.width, 0) /\ GreaterEq(b.height, 0)

\* the boundaries of the nodes that a query for range visits, in pre-order
QueryVisits(range) ==
    [k \in 1..Len(VisitedPreOrder(range)) |->
        BoundsEntry(quadtree[VisitedPreOrder(range)[k]].boundary)]

\* C30: intersects gives the same for a and b as for b and a, whatever the
\* sizes of the rectangles, rectangles that touch intersect, and for every
\* rectangle the boundary enumeration, which asks the rectangle, visits the
\* nodes that query, which asks the node's boundary, visits.
C30_IntersectsSymmetric ==
    /\ \A a, b \in RectanglesAtHand :
          /\ Intersects(a, b) = Intersects(b, a)
          /\ Touching(a, b) => Intersects(a, b)
    /\ \A range \in ProbeRanges :
          CollectVisibleBounds(quadtree, RootPath, range, << >>)
              = QueryVisits(range)

\* a subdivided tree, a query rectangle that touches the boundary of a node
\* at a corner and is visited there, one of negative width that intersects a
\* boundary, and a node that neither query nor enumeration visits
C30_Witness ==
    /\ quadtree[RootPath].divided
    /\ \E range \in ProbeRanges : \E p \in DOMAIN quadtree :
          /\ FAdd(range.x, range.width) = quadtree[p].boundary.x
          /\ FAdd(quadtree[p].boundary.y, quadtree[p].boundary.height) = range.y
          /\ Visited(p, range)
    /\ \E range \in ProbeRanges : \E p \in DOMAIN quadtree :
          range.width < 0 /\ Intersects(range, quadtree[p].boundary)
    /\ \E range \in ProbeRanges : \E p \in DOMAIN quadtree :
          /\ ~Visited(p, range)
          /\ Len(QueryVisits(range)) > 1

====
